---- MODULE Spec2Model ----
(***************************************************************************)
(* Model of the browser session manager of packages/native:                *)
(* chromium_manager.rs.  The registry BROWSERS is a tokio Mutex around a   *)
(* HashMap from session id to Arc<Browser>.  Every napi entry point is an  *)
(* async function; a caller task runs one entry point at a time and is     *)
(* modelled from one suspension point (.await) to the next.                *)
(***************************************************************************)
EXTENDS Integers, Sequences, FiniteSets, TLC

\* ------------------------------------------------------------------ bounds
MaxConns == 2
MaxClock == 1
MaxPages == 2
MaxCalls == 4
\* port_scanner: the lowest ports sampled run up to MaxLowPort, and a range
\* drawn spans at most MaxLowPort ports more than its first; count runs up
\* to MaxCount
MaxLowPort == 3
MaxCount == 4

\* ------------------------------------------------------- program constants
DefaultWidth == 1920
DefaultHeight == 1080
CdpPort == 9222
\* the greatest u16
MaxPort == 65535

\* ------------------------------------------------------------ value spaces
\* Two callers, each running one entry point at a time: the entry points
\* are async, so the calls of the two overlap.
Tasks == {"t1", "t2"}
NoTask == "none"
NoConn == 0

\* Option<T>: None is the empty tuple, Some(x) the one-element tuple.
NoneV == <<>>
Some(x) == <<x>>
IsSome(o) == o # <<>>
Unwrap(o) == o[1]

\* format!("chromium_{}", millis): the prefix followed by the clock reading.
FormatId(ms) == <<"chromium_", ms>>
Ids == {FormatId(ms) : ms \in 0..MaxClock}
NoId == <<>>

Urls == {"https://example.com"}
Paths == {"/tmp/out.png"}
Scripts == {"1+1"}
BlankPage == "about:blank"

\* ChromiumConfig (disable_default_args is read by nothing and left out).
ChromiumConfig ==
    [width : {NoneV, Some(800)}, height : {NoneV, Some(600)},
     headless : {NoneV, Some(TRUE), Some(FALSE)}]
Configs == {NoneV} \cup {Some(c) : c \in ChromiumConfig}

Commands == {"navigate", "executeScript", "screenshot", "getContent"}
Ops == Commands \cup {"launch", "close"}

\* Error::new(Status, message)
ErrNotFound == <<"InvalidArg", "Browser instance not found">>
ErrNoPage == <<"GenericFailure", "No active page found">>
ErrBuild == <<"GenericFailure", "Failed to build config">>
ErrLaunch == <<"GenericFailure", "Failed to launch browser">>
ErrNewPage == <<"GenericFailure", "Failed to create page">>
ErrGoto == <<"GenericFailure", "Failed to navigate">>
ErrPages == <<"GenericFailure", "Failed to get pages">>
ErrEval == <<"GenericFailure", "Failed to execute JS">>
ErrShot == <<"GenericFailure", "Failed to take screenshot">>
ErrContent == <<"GenericFailure", "Failed to get content">>
ErrWrite == <<"GenericFailure", "Failed to write screenshot">>
NoErr == <<>>

\* The error taxonomy the messages stand for.
ErrorKind(e) ==
    IF e = NoErr THEN "none"
    ELSE IF e = ErrNotFound THEN "NotFound"
    ELSE IF e = ErrNoPage THEN "NoActivePage"
    ELSE IF e = ErrWrite THEN "IoError"
    ELSE IF e = ErrBuild THEN "ConfigurationError"
    ELSE "ConnectionError"

VARIABLES
    BROWSERS,   \* the HashMap: a function from the registered ids to connections
    lock,       \* the task holding the BROWSERS mutex guard, or NoTask
    clock,      \* the latest reading of SystemTime::now(), in milliseconds
    conns,      \* every Browser launched so far, by index
    calls,      \* how many calls have been made so far
    pc,         \* the suspension point each task is at
    call,       \* the entry point and arguments each task is running
    local,      \* the locals of the running entry point
    ret,        \* what the latest step returned to its caller, if it returned
    launched,   \* the Browser::launch call the latest step made, if any
    written,    \* the path the latest step wrote with std::fs::write, if any
    start_port, \* port_scanner: the arguments of the call
    end_port,
    count,
    free,       \* the ports a TcpListener can be bound to during the call
    found       \* what the call returned, once it has

scanner == <<start_port, end_port, count, free, found>>
vars == <<BROWSERS, lock, clock, conns, calls, pc, call, local, ret, launched,
          written, scanner>>

\* afterClose records, when a command is called, whether a close of its id
\* had already returned true: it is read by properties only.
NoCall == [op |-> "none", instance_id |-> NoId, afterClose |-> FALSE]
NoLocal == [browser |-> NoConn, page |-> NoneV]
NoRet == [op |-> "none", instance_id |-> NoId,
          afterClose |-> FALSE, ok |-> FALSE, err |-> NoErr, val |-> <<>>]

\* ------------------------------------------------------- launch: the config
\* config.unwrap_or(ChromiumConfig { Some(1920), Some(1080), Some(false) })
UnwrapConfig(config) ==
    IF IsSome(config) THEN Unwrap(config)
    ELSE [width |-> Some(DefaultWidth), height |-> Some(DefaultHeight),
          headless |-> Some(FALSE)]

\* BrowserConfig::builder(): headless unless with_head() is called, and no
\* window size unless window_size() is called.
BuilderDefault == [headless |-> TRUE, window |-> NoneV]
WithHead(b) == [b EXCEPT !.headless = FALSE]
WithWindowSize(b, w, h) == [b EXCEPT !.window = Some(<<w, h>>)]

\* if let Some(width) { if let Some(height) { window_size(width, height) } }
ApplyWindow(b, cfg) ==
    IF IsSome(cfg.width) /\ IsSome(cfg.height)
    THEN WithWindowSize(b, Unwrap(cfg.width), Unwrap(cfg.height))
    ELSE b

\* if let Some(headless) { if headless { with_head() } }
ApplyHeadless(b, cfg) ==
    IF IsSome(cfg.headless) /\ Unwrap(cfg.headless) THEN WithHead(b) ELSE b

BuildBrowserConfig(config) ==
    LET cfg == UnwrapConfig(config)
    IN  ApplyHeadless(ApplyWindow(BuilderDefault, cfg), cfg)

NoLaunch == [called |-> FALSE, config |-> NoneV, browser_cfg |-> BuilderDefault]

\* --------------------------------------------------------------- the HashMap
\* A get that falls back on some other entry when k is not a key.
HashMapGetAny(m, k) ==
    IF k \in DOMAIN m THEN Some(m[k])
    ELSE IF DOMAIN m # {} THEN Some(m[CHOOSE x \in DOMAIN m : TRUE])
    ELSE NoneV

\* get(k)
HashMapGet(m, k) == IF k \in DOMAIN m THEN Some(m[k]) ELSE NoneV
\* An insert that keeps the value already stored under k.
HashMapInsertKeeps(m, k, v) ==
    [map |-> [x \in (DOMAIN m) \cup {k} |-> IF x \in DOMAIN m THEN m[x] ELSE v],
     old |-> NoneV]

\* insert(k, v) replaces the value under k and returns the one it replaced
HashMapInsert(m, k, v) ==
    [map |-> [x \in (DOMAIN m) \cup {k} |-> IF x = k THEN v ELSE m[x]],
     old |-> HashMapGet(m, k)]
\* A remove that reads the entry and leaves it in the map.
HashMapRemoveKeeps(m, k) == [map |-> m, old |-> HashMapGet(m, k)]

\* remove(k) returns the value it removed, if any
HashMapRemove(m, k) ==
    [map |-> [x \in (DOMAIN m) \ {k} |-> m[x]], old |-> HashMapGet(m, k)]
EmptyMap == [x \in {} |-> NoConn]

\* ------------------------------------------------------------ the connection
\* The Browser that Browser::launch returns together with its handler stream.
\* id is the id the launching task formats for it; owner says where its only
\* Arc is: "task" (browser_arc, before the insert), "registry", or dropped by
\* "close" (remove) or by "insert" (the value an insert replaced).
NewBrowser(id, initialPages) ==
    [id |-> id, owner |-> "task", pages |-> initialPages, pump |-> "running"]

Page(n, url) == [pid |-> n, url |-> url]
Markup(page) == <<"html", page.pid, page.url>>

Dropped(b) == b.owner \in {"close", "insert"}

\* A drop that releases nothing: the handle stays with the registry.
DropArcKeeps(cs, c, by) == cs

\* The registry's Arc<Browser> is the only one: dropping it drops the Browser,
\* which ends the browser process and its pages.
DropArc(cs, c, by) == [cs EXCEPT ![c].owner = by, ![c].pages = <<>>]

\* Moving browser_arc into the map.
MoveArc(cs, c) == [cs EXCEPT ![c].owner = "registry"]

Conns == 1..Len(conns)
\* ids returned by successful launches, one per launch
Issued == {c \in Conns : conns[c].owner # "task"}
\* how many close calls on id returned true
ClosedCount(id) ==
    Cardinality({c \in Conns : conns[c].id = id /\ conns[c].owner = "close"})

\* ------------------------------------------------------------ port_scanner
\* Result<T>: Ok(val) or Err(err).  A u16 is returned as <<port>>, a Vec<u16>
\* as the sequence of its elements.
Ok(fn, val) == [fn |-> fn, ok |-> TRUE, err |-> NoErr, val |-> val]
Err(fn, err) == [fn |-> fn, ok |-> FALSE, err |-> err, val |-> <<>>]
NoResult == [fn |-> "none", ok |-> FALSE, err |-> NoErr, val |-> <<>>]

ErrPortZero == <<"InvalidArg", "Port numbers must be between 1 and 65535">>
ErrStartAfterEnd(start, end) ==
    <<"InvalidArg", "Start port must be less than or equal to end port",
      start, end>>
ErrNoPortFound(start, end) ==
    <<"GenericFailure", "No available ports found in range", start, end>>
ErrRangeTooSmall(n, range_size) ==
    <<"InvalidArg", "Requested ports but range only contains", n, range_size>>
ErrTooFewFound(len, n) ==
    <<"GenericFailure", "Only found available ports, but were requested",
      len, n>>

\* u16 arithmetic
U16(n) == n % (MaxPort + 1)

\* start_port..=end_port: a RangeInclusive<u16>
RangeInclusive(start, end) ==
    [start |-> start, end |-> end, exhausted |-> FALSE]

\* An iterator that ends one short of `end`.
RangeNextExclusive(it) ==
    IF it.start >= it.end THEN [item |-> NoneV, it |-> it]
    ELSE [item |-> Some(it.start), it |-> [it EXCEPT !.start = U16(@ + 1)]]

\* The next() the `for` loop calls: the last item is handed out by setting
\* the exhausted flag, not by stepping past `end`.
RangeNext(it) ==
    IF it.exhausted \/ it.start > it.end THEN [item |-> NoneV, it |-> it]
    ELSE IF it.start < it.end
    THEN [item |-> Some(it.start), it |-> [it EXCEPT !.start = U16(@ + 1)]]
    ELSE [item |-> Some(it.start), it |-> [it EXCEPT !.exhausted = TRUE]]

\* format!("0.0.0.0:{}", port)
BindAddr(port) == <<"0.0.0.0", port>>

\* A bind that succeeds on every address.
TcpListenerBindAny(addr, bindable) == TRUE

\* TcpListener::bind(&addr) is Ok
TcpListenerBind(addr, bindable) == addr[2] \in bindable

\* for port in start_port..=end_port { if let Ok(listener) = bind
\* { drop(listener); return Ok(port) } }
RECURSIVE FirstBound(_, _)
FirstBound(it, bindable) ==
    LET next == RangeNext(it)
    IN  IF ~IsSome(next.item) THEN NoneV
        ELSE IF TcpListenerBind(BindAddr(Unwrap(next.item)), bindable)
        THEN next.item
        ELSE FirstBound(next.it, bindable)

find_available_port(start, end, bindable) ==
    LET fn == "find_available_port"
    IN  IF start = 0 \/ end = 0 THEN Err(fn, ErrPortZero)
        ELSE IF start > end THEN Err(fn, ErrStartAfterEnd(start, end))
        ELSE LET port == FirstBound(RangeInclusive(start, end), bindable)
             IN  IF IsSome(port) THEN Ok(fn, <<Unwrap(port)>>)
                 ELSE Err(fn, ErrNoPortFound(start, end))

\* for port in start_port..=end_port { if available_ports.len() >= count
\* { break } if let Ok(listener) = bind { available_ports.push(port) } }
RECURSIVE AllBound(_, _, _, _)
AllBound(it, available_ports, n, bindable) ==
    LET next == RangeNext(it)
    IN  IF ~IsSome(next.item) THEN available_ports
        ELSE IF Len(available_ports) >= n THEN available_ports
        ELSE AllBound(next.it,
                      IF TcpListenerBind(BindAddr(Unwrap(next.item)), bindable)
                      THEN Append(available_ports, Unwrap(next.item))
                      ELSE available_ports,
                      n, bindable)

find_available_ports(start, end, n, bindable) ==
    LET fn == "find_available_ports"
        range_size == U16(U16(end - start) + 1)
    IN  IF start = 0 \/ end = 0 THEN Err(fn, ErrPortZero)
        ELSE IF start > end THEN Err(fn, ErrStartAfterEnd(start, end))
        ELSE IF n = 0 THEN Ok(fn, <<>>)
        ELSE IF n > range_size THEN Err(fn, ErrRangeTooSmall(n, range_size))
        ELSE LET available_ports ==
                     AllBound(RangeInclusive(start, end), <<>>, n, bindable)
             IN  IF Len(available_ports) < n
                 THEN Err(fn, ErrTooFewFound(Len(available_ports), n))
                 ELSE Ok(fn, available_ports)

\* The ports the calls are tried on: the lowest ones and the two highest.
Ports == 0..MaxLowPort \cup (MaxPort - 1)..MaxPort

\* ------------------------------------------------------------- initial state
\* No browser has been launched and no call is running.
NoSession ==
    /\ BROWSERS = EmptyMap
    /\ lock = NoTask
    /\ clock = 0
    /\ conns = <<>>
    /\ calls = 0
    /\ pc = [t \in Tasks |-> "idle"]
    /\ call = [t \in Tasks |-> NoCall]
    /\ local = [t \in Tasks |-> NoLocal]
    /\ ret = NoRet
    /\ launched = NoLaunch
    /\ written = NoneV

\* No port scan has been called.
NoScan ==
    /\ start_port = 0
    /\ end_port = 0
    /\ count = 0
    /\ free = {}
    /\ found = NoResult

Init == NoSession /\ NoScan

\* ------------------------------------------------------------------ helpers
Browser(t) == conns[local[t].browser]

\* A first() that hands out a page of an empty page set.
FirstPageUnchecked(pages) ==
    IF pages = <<>> THEN Some(Page(1, BlankPage)) ELSE Some(pages[1])

\* pages.first()
FirstPage(pages) == IF pages = <<>> THEN NoneV ELSE Some(pages[1])

\* A call returns: its locals (and a guard among them) go out of scope.
Return(t, ok, err, val) ==
    /\ pc' = [pc EXCEPT ![t] = "idle"]
    /\ call' = [call EXCEPT ![t] = NoCall]
    /\ local' = [local EXCEPT ![t] = NoLocal]
    /\ ret' = [op |-> call[t].op,
               instance_id |-> call[t].instance_id,
               afterClose |-> call[t].afterClose,
               ok |-> ok, err |-> err, val |-> val]

\* The task moves on to its next suspension point.
Goes(t, to) ==
    /\ pc' = [pc EXCEPT ![t] = to]
    /\ ret' = NoRet

\* A return that leaves the guard behind (it is never dropped).
ReleaseGuardLeaks(t) == lock' = lock

\* Dropping the MutexGuard `browsers` at the end of the function.
ReleaseGuard(t) == lock' = IF lock = t THEN NoTask ELSE lock

BrowserOpPcs == {"new_page", "goto", "pages", "page_op"}

\* ------------------------------------------------------------------- launch
\* launch_chromium_browser up to Browser::launch(..).await: the config is
\* built; build() fails when no browser executable is found.  At most
\* MaxConns browsers are launched and at most MaxCalls calls made.
CallLaunch(t) ==
    /\ pc[t] = "idle"
    /\ calls < MaxCalls
    /\ Len(conns) < MaxConns
    /\ calls' = calls + 1
    /\ \E config \in Configs, built \in BOOLEAN :
          IF built
          THEN /\ call' = [call EXCEPT ![t] =
                            [op |-> "launch", instance_id |-> NoId,
                             afterClose |-> FALSE]]
               /\ launched' = [called |-> TRUE, config |-> config,
                               browser_cfg |-> BuildBrowserConfig(config)]
               /\ Goes(t, "browser_launch")
          ELSE /\ pc' = pc
               /\ call' = call
               /\ launched' = NoLaunch
               /\ ret' = [op |-> "launch", instance_id |-> NoId,
                          afterClose |-> FALSE, ok |-> FALSE,
                          err |-> ErrBuild, val |-> <<>>]
    /\ written' = NoneV
    /\ UNCHANGED <<BROWSERS, lock, clock, conns, local, scanner>>

\* A launch that formats an id and spawns the handler task before it tests
\* the result of Browser::launch.
LaunchBrowserLeaks(t) ==
    /\ pc[t] = "browser_launch"
    /\ \E ok \in BOOLEAN, initial \in {<<>>, <<Page(1, BlankPage)>>},
          now \in clock..MaxClock :
          IF ok
          THEN /\ conns' = Append(conns, NewBrowser(FormatId(now), initial))
               /\ clock' = now
               /\ local' = [local EXCEPT ![t].browser = Len(conns) + 1]
               /\ Goes(t, "launch_lock")
               /\ UNCHANGED call
          ELSE /\ Return(t, FALSE, ErrLaunch, <<>>)
               /\ conns' = Append(conns, NewBrowser(FormatId(now), initial))
               /\ clock' = now
    /\ launched' = NoLaunch
    /\ written' = NoneV
    /\ UNCHANGED <<BROWSERS, lock, calls, scanner>>

\* Browser::launch returns.  On success the handler task is spawned, the id
\* is formatted from the clock and the task goes on to BROWSERS.lock().await.
\* The clock is read here and nowhere else: `now` is any reading not earlier
\* than the latest one, so two launches may read the same millisecond.
LaunchBrowser(t) ==
    /\ pc[t] = "browser_launch"
    /\ \E ok \in BOOLEAN, initial \in {<<>>, <<Page(1, BlankPage)>>},
          now \in clock..MaxClock :
          IF ok
          THEN /\ conns' = Append(conns, NewBrowser(FormatId(now), initial))
               /\ clock' = now
               /\ local' = [local EXCEPT ![t].browser = Len(conns) + 1]
               /\ Goes(t, "launch_lock")
               /\ UNCHANGED call
          ELSE /\ Return(t, FALSE, ErrLaunch, <<>>)
               /\ UNCHANGED <<conns, clock>>
    /\ launched' = NoLaunch
    /\ written' = NoneV
    /\ UNCHANGED <<BROWSERS, lock, calls, scanner>>

\* The lock is acquired, browsers.insert(id, browser_arc) runs, the instance
\* is returned and the guard dropped.  insert drops the value it replaces.
LaunchRegister(t) ==
    /\ pc[t] = "launch_lock"
    /\ lock = NoTask
    /\ LET b == local[t].browser
           id == conns[b].id
           ins == HashMapInsert(BROWSERS, id, b)
           moved == MoveArc(conns, b)
       IN  /\ BROWSERS' = ins.map
           /\ conns' = IF IsSome(ins.old)
                       THEN DropArc(moved, Unwrap(ins.old), "insert") ELSE moved
           /\ Return(t, TRUE, NoErr, <<id, BlankPage, CdpPort>>)
    /\ launched' = NoLaunch
    /\ written' = NoneV
    /\ UNCHANGED <<lock, clock, calls, scanner>>

\* ----------------------------------------------------------------- commands
CallCommand(t) ==
    /\ pc[t] = "idle"
    /\ calls < MaxCalls
    /\ calls' = calls + 1
    /\ \E op \in Commands \cup {"close"}, id \in Ids :
          call' = [call EXCEPT ![t] =
                     [op |-> op, instance_id |-> id,
                      afterClose |-> ClosedCount(id) > 0]]
    /\ Goes(t, "lock")
    /\ launched' = NoLaunch
    /\ written' = NoneV
    /\ UNCHANGED <<BROWSERS, lock, clock, conns, local, scanner>>

\* A lookup that drops the guard before the browser operation while it goes
\* on borrowing the browser from the map.
LookupUnguarded(t) ==
    /\ pc[t] = "lock"
    /\ call[t].op \in Commands
    /\ lock = NoTask
    /\ LET got == HashMapGet(BROWSERS, call[t].instance_id)
       IN  IF IsSome(got)
           THEN /\ lock' = lock
                /\ local' = [local EXCEPT ![t].browser = Unwrap(got)]
                /\ Goes(t, IF call[t].op = "navigate" THEN "new_page" ELSE "pages")
                /\ UNCHANGED call
           ELSE /\ Return(t, FALSE, ErrNotFound, <<>>)
                /\ UNCHANGED lock
    /\ launched' = NoLaunch
    /\ written' = NoneV
    /\ UNCHANGED <<BROWSERS, clock, conns, calls, scanner>>

\* let browsers = BROWSERS.lock().await; let browser = browsers.get(&id)
\* .ok_or_else(NotFound)?;  The guard `browsers` lives to the end of the
\* function, and `browser` borrows from it.
Lookup(t) ==
    /\ pc[t] = "lock"
    /\ call[t].op \in Commands
    /\ lock = NoTask
    /\ LET got == HashMapGet(BROWSERS, call[t].instance_id)
       IN  IF IsSome(got)
           THEN /\ lock' = t
                /\ local' = [local EXCEPT ![t].browser = Unwrap(got)]
                /\ Goes(t, IF call[t].op = "navigate" THEN "new_page" ELSE "pages")
                /\ UNCHANGED call
           ELSE /\ Return(t, FALSE, ErrNotFound, <<>>)
                /\ UNCHANGED lock
    /\ launched' = NoLaunch
    /\ written' = NoneV
    /\ UNCHANGED <<BROWSERS, clock, conns, calls, scanner>>

\* browser.new_page(&url).await.  A session holding MaxPages pages gets no
\* further page: the creation fails.
NewPage(t) ==
    /\ pc[t] = "new_page"
    /\ \E created \in BOOLEAN, url \in Urls :
          IF created /\ Len(Browser(t).pages) < MaxPages
          THEN LET b == local[t].browser
                   p == Page(Len(conns[b].pages) + 1, url)
               IN  /\ conns' = [conns EXCEPT ![b].pages = Append(@, p)]
                   /\ local' = [local EXCEPT ![t].page = Some(p)]
                   /\ Goes(t, "goto")
                   /\ UNCHANGED <<call, lock>>
          ELSE /\ Return(t, FALSE, ErrNewPage, <<>>)
               /\ ReleaseGuard(t)
               /\ UNCHANGED conns
    /\ launched' = NoLaunch
    /\ written' = NoneV
    /\ UNCHANGED <<BROWSERS, clock, calls, scanner>>

\* A navigate that evicts the session when the navigation fails.
GotoEvicts(t) ==
    /\ pc[t] = "goto"
    /\ \E navigated \in BOOLEAN :
          IF navigated
          THEN /\ Return(t, TRUE, NoErr, <<TRUE>>)
               /\ UNCHANGED BROWSERS
          ELSE /\ Return(t, FALSE, ErrGoto, <<>>)
               /\ BROWSERS' = HashMapRemove(BROWSERS, call[t].instance_id).map
    /\ ReleaseGuard(t)
    /\ launched' = NoLaunch
    /\ written' = NoneV
    /\ UNCHANGED <<clock, conns, calls, scanner>>

\* page.goto(&url).await; Ok(true)
Goto(t) ==
    /\ pc[t] = "goto"
    /\ \E navigated \in BOOLEAN :
          IF navigated THEN Return(t, TRUE, NoErr, <<TRUE>>)
          ELSE Return(t, FALSE, ErrGoto, <<>>)
    /\ ReleaseGuard(t)
    /\ launched' = NoLaunch
    /\ written' = NoneV
    /\ UNCHANGED <<BROWSERS, clock, conns, calls, scanner>>

\* A pages() that may also hand out a page that is not live in the browser.
PageOrdersStale(pages) ==
    {<<Page(0, BlankPage)>>} \cup
    {[i \in 1..Len(pages) |-> pages[f[i]]] : f \in Permutations(1..Len(pages))}

\* The Vecs browser.pages().await may return: the live pages of the browser,
\* in an order that nothing in this code fixes.
PageOrders(pages) ==
    {[i \in 1..Len(pages) |-> pages[f[i]]] : f \in Permutations(1..Len(pages))}

\* browser.pages().await, then pages.first()
Pages(t) ==
    /\ pc[t] = "pages"
    /\ \E fetched \in BOOLEAN, vec \in PageOrders(Browser(t).pages) :
          IF fetched
          THEN LET first == FirstPage(vec)
               IN  IF IsSome(first)
                   THEN /\ local' = [local EXCEPT ![t].page = first]
                        /\ Goes(t, "page_op")
                        /\ UNCHANGED <<call, lock>>
                   ELSE /\ Return(t, FALSE, ErrNoPage, <<>>)
                        /\ ReleaseGuard(t)
          ELSE /\ Return(t, FALSE, ErrPages, <<>>)
               /\ ReleaseGuard(t)
    /\ launched' = NoLaunch
    /\ written' = NoneV
    /\ UNCHANGED <<BROWSERS, clock, conns, calls, scanner>>

\* A serialization that hands its failure on instead of a text.
ToJsonStrict(serializable, script) ==
    IF serializable THEN <<"json", script>> ELSE <<"error">>

\* serde_json::to_string(&result.value()).unwrap_or_else(|_| "{}")
ToJson(serializable, script) == IF serializable THEN <<"json", script>> ELSE <<"{}">>

\* page.evaluate(script).await and the serialization of its value
Evaluate(t) ==
    /\ pc[t] = "page_op"
    /\ call[t].op = "executeScript"
    /\ \E evaluated \in BOOLEAN, serializable \in BOOLEAN, script \in Scripts :
          IF evaluated
          THEN Return(t, TRUE, NoErr, <<ToJson(serializable, script)>>)
          ELSE Return(t, FALSE, ErrEval, <<>>)
    /\ ReleaseGuard(t)
    /\ launched' = NoLaunch
    /\ written' = NoneV
    /\ UNCHANGED <<BROWSERS, clock, conns, calls, scanner>>

\* page.screenshot(..).await, then std::fs::write(&output_path, screenshot)
Screenshot(t) ==
    /\ pc[t] = "page_op"
    /\ call[t].op = "screenshot"
    /\ \E captured \in BOOLEAN, wrote \in BOOLEAN, path \in Paths :
          IF ~captured
          THEN Return(t, FALSE, ErrShot, <<>>) /\ written' = NoneV
          ELSE IF ~wrote
          THEN Return(t, FALSE, ErrWrite, <<>>) /\ written' = NoneV
          ELSE Return(t, TRUE, NoErr, <<path>>) /\ written' = Some(path)
    /\ ReleaseGuard(t)
    /\ launched' = NoLaunch
    /\ UNCHANGED <<BROWSERS, clock, conns, calls, scanner>>

\* page.content().await
Content(t) ==
    /\ pc[t] = "page_op"
    /\ call[t].op = "getContent"
    /\ \E got \in BOOLEAN :
          IF got THEN Return(t, TRUE, NoErr, <<Markup(Unwrap(local[t].page))>>)
          ELSE Return(t, FALSE, ErrContent, <<>>)
    /\ ReleaseGuard(t)
    /\ launched' = NoLaunch
    /\ written' = NoneV
    /\ UNCHANGED <<BROWSERS, clock, conns, calls, scanner>>

\* -------------------------------------------------------------------- close
\* A close that clears the whole map when it finds its id.
CloseClears(t) ==
    /\ pc[t] = "lock"
    /\ call[t].op = "close"
    /\ lock = NoTask
    /\ LET id == call[t].instance_id
           removed == HashMapRemove(BROWSERS, id)
       IN  /\ BROWSERS' = IF IsSome(removed.old) THEN EmptyMap ELSE BROWSERS
           /\ IF IsSome(removed.old)
              THEN /\ conns' = DropArc(conns, Unwrap(removed.old), "close")
                   /\ Return(t, TRUE, NoErr, <<TRUE>>)
              ELSE /\ Return(t, FALSE, ErrNotFound, <<>>)
                   /\ UNCHANGED conns
    /\ launched' = NoLaunch
    /\ written' = NoneV
    /\ UNCHANGED <<lock, clock, calls, scanner>>

\* close_chromium_browser: lock, browsers.remove(&id).is_some(), return.  The
\* removed Arc<Browser> is dropped.
Close(t) ==
    /\ pc[t] = "lock"
    /\ call[t].op = "close"
    /\ lock = NoTask
    /\ LET id == call[t].instance_id
           removed == HashMapRemove(BROWSERS, id)
       IN  /\ BROWSERS' = removed.map
           /\ IF IsSome(removed.old)
              THEN /\ conns' = DropArc(conns, Unwrap(removed.old), "close")
                   /\ Return(t, TRUE, NoErr, <<TRUE>>)
              ELSE /\ Return(t, FALSE, ErrNotFound, <<>>)
                   /\ UNCHANGED conns
    /\ launched' = NoLaunch
    /\ written' = NoneV
    /\ UNCHANGED <<lock, clock, calls, scanner>>

\* -------------------------------------------------------------- environment
\* A handler task that takes its session out of the registry when the stream
\* yields an error.
PumpErrorEvicts(c) ==
    /\ conns[c].pump = "running"
    /\ ~Dropped(conns[c])
    /\ conns' = [conns EXCEPT ![c].pump = "errored"]
    /\ BROWSERS' = [id \in {k \in DOMAIN BROWSERS : BROWSERS[k] # c} |->
                      BROWSERS[id]]
    /\ ret' = NoRet
    /\ launched' = NoLaunch
    /\ written' = NoneV
    /\ UNCHANGED <<lock, clock, calls, pc, call, local, scanner>>

\* The spawned handler task: while let Some(h) = handler.next().await
\* { if h.is_err() { break; } }  -- the stream yields an error.
PumpError(c) ==
    /\ conns[c].pump = "running"
    /\ ~Dropped(conns[c])
    /\ conns' = [conns EXCEPT ![c].pump = "errored"]
    /\ ret' = NoRet
    /\ launched' = NoLaunch
    /\ written' = NoneV
    /\ UNCHANGED <<BROWSERS, lock, clock, calls, pc, call, local, scanner>>

\* A handler stream that stays open after the Browser has been dropped.
PumpEndNever(c) ==
    /\ FALSE
    /\ UNCHANGED vars

\* The stream ends (next() yields None) once the Browser has been dropped.
PumpEnd(c) ==
    /\ conns[c].pump = "running"
    /\ Dropped(conns[c])
    /\ conns' = [conns EXCEPT ![c].pump = "ended"]
    /\ ret' = NoRet
    /\ launched' = NoLaunch
    /\ written' = NoneV
    /\ UNCHANGED <<BROWSERS, lock, clock, calls, pc, call, local, scanner>>

Next ==
    \/ \E t \in Tasks : CallLaunch(t)
    \/ \E t \in Tasks : CallCommand(t)
    \/ \E t \in Tasks : LaunchBrowser(t)
    \/ \E t \in Tasks : LaunchRegister(t)
    \/ \E t \in Tasks : Lookup(t)
    \/ \E t \in Tasks : NewPage(t)
    \/ \E t \in Tasks : Goto(t)
    \/ \E t \in Tasks : Pages(t)
    \/ \E t \in Tasks : Evaluate(t)
    \/ \E t \in Tasks : Screenshot(t)
    \/ \E t \in Tasks : Content(t)
    \/ \E t \in Tasks : Close(t)
    \/ \E c \in Conns : PumpError(c)
    \/ \E c \in Conns : PumpEnd(c)

Spec == Init /\ [][Next]_vars

\* The runtime schedules every ready task, and the tokio Mutex hands the lock
\* to its waiters in FIFO order, so a waiter is not overtaken forever.  No
\* fairness is stated for the browser operations: nothing in the code bounds
\* them (no timeout), so a hung page never answers.
FairSpec ==
    /\ Spec
    /\ \A t \in Tasks : SF_vars(LaunchRegister(t) \/ Lookup(t) \/ Close(t))


\* Every browser operation returns in the end (the premise under which the
\* callers' progress is stated), the lock is handed to its waiters as in
\* FairSpec, and the handler task, once spawned, is scheduled: when the
\* stream of a dropped Browser ends, its loop ends.
LiveSpec ==
    /\ FairSpec
    /\ \A t \in Tasks :
          WF_vars(LaunchBrowser(t) \/ NewPage(t) \/ Goto(t) \/ Pages(t)
                  \/ Evaluate(t) \/ Screenshot(t) \/ Content(t))
    /\ \A c \in 1..MaxConns : WF_vars(c \in Conns /\ PumpEnd(c))

\* --------------------------------------------------- port_scanner, on its own
\* A call of find_available_port or find_available_ports with any arguments
\* of the sampled ports (a range of at most MaxLowPort + 1 ports, or an
\* invalid one), while any set of those ports can be bound.
PortInit ==
    /\ NoSession
    /\ start_port \in Ports
    /\ end_port \in Ports
    /\ end_port - start_port <= MaxLowPort
    /\ count \in 0..MaxCount
    /\ free \in SUBSET (Ports \ {0})
    /\ found = NoResult

FindAvailablePort ==
    /\ found.fn = "none"
    /\ found' = find_available_port(start_port, end_port, free)
    /\ UNCHANGED <<BROWSERS, lock, clock, conns, calls, pc, call, local, ret,
                   launched, written, start_port, end_port, count, free>>

FindAvailablePorts ==
    /\ found.fn = "none"
    /\ found' = find_available_ports(start_port, end_port, count, free)
    /\ UNCHANGED <<BROWSERS, lock, clock, conns, calls, pc, call, local, ret,
                   launched, written, start_port, end_port, count, free>>

PortNext ==
    \/ FindAvailablePort
    \/ FindAvailablePorts

PortSpec == PortInit /\ [][PortNext]_vars

\* =================================================================== claims
Registered(id) == id \in DOMAIN BROWSERS
InFlight(t) == pc[t] \in BrowserOpPcs
\* a close of id returned true and id has not been registered again since
ClosedSinceInsert(id) ==
    /\ ClosedCount(id) > 0
    /\ \A c \in Conns : conns[c].id = id => conns[c].owner # "registry"

\* C1: no task holds the BROWSERS lock while it is suspended on a browser
\* operation (new_page, goto, pages, evaluate, screenshot, content).
C1_LockNotHeldAcrossAwait ==
    \A t \in Tasks : InFlight(t) => lock # t

\* C2: a navigate on registered session A that waits for the lock while
\* another task is inside a navigate on a distinct session B gets past the
\* lock, whether or not B's browser operation ever returns.
C2_Isolation ==
    \A t \in Tasks :
        (/\ pc[t] = "lock"
         /\ call[t].op = "navigate"
         /\ Registered(call[t].instance_id)
         /\ \E u \in Tasks \ {t} :
               /\ InFlight(u)
               /\ call[u].op = "navigate"
               /\ call[u].instance_id # call[t].instance_id)
        ~> (pc[t] # "lock")

\* C3: no step replaces the handle stored under an id that is already a key
\* of the registry.
C3_NoOverwrite ==
    [][\A id \in DOMAIN BROWSERS :
          id \in DOMAIN BROWSERS' => BROWSERS'[id] = BROWSERS[id]]_vars

\* C4: the ids returned by successful launches are pairwise distinct.
C4_DistinctIds ==
    \A c1, c2 \in Issued : c1 # c2 => conns[c1].id # conns[c2].id

\* C5: a command called after close(id) returned true never gets past the
\* lookup (so it issues no browser operation and writes no file) and returns
\* NotFound.
C5_PostCloseInvalid ==
    /\ \A t \in Tasks :
          (call[t].op \in Commands /\ call[t].afterClose) => pc[t] = "lock"
    /\ (ret.op \in Commands /\ ret.afterClose) => ErrorKind(ret.err) = "NotFound"

\* C6: close(id) on an id that is not a key fails with NotFound and leaves the
\* registry unchanged; it returns true exactly when id was a key, and then id
\* is a key no longer and the other entries are untouched; a close of an id
\* already closed and not registered again since fails with NotFound.
C6_NotFoundClosure ==
    [][\A t \in Tasks :
          (pc[t] = "lock" /\ call[t].op = "close" /\ pc'[t] = "idle") =>
             LET id == call[t].instance_id
             IN  /\ ret'.ok <=> Registered(id)
                 /\ ~ret'.ok <=> ErrorKind(ret'.err) = "NotFound"
                 /\ ~Registered(id) => BROWSERS' = BROWSERS
                 /\ id \notin DOMAIN BROWSERS'
                 /\ \A k \in DOMAIN BROWSERS \ {id} :
                       k \in DOMAIN BROWSERS' /\ BROWSERS'[k] = BROWSERS[k]
                 /\ ClosedSinceInsert(id) => ~ret'.ok]_vars

\* C6 witness: a second close of an id fails after the first returned true.
C6_Witness ==
    /\ ret.op = "close"
    /\ ErrorKind(ret.err) = "NotFound"
    /\ ClosedCount(ret.instance_id) > 0

\* C7: a launch asked for headless = true launches a headless browser, and
\* one asked for headless = false a headed browser.
C7_HeadModeRoundTrip ==
    (/\ launched.called
     /\ IsSome(launched.config)
     /\ IsSome(Unwrap(launched.config).headless))
    => launched.browser_cfg.headless = Unwrap(Unwrap(launched.config).headless)

\* C8 (as claimed): each of the four commands, on a registered session whose
\* page set is empty, fails with NoActivePage, and navigate creates no page.
C8_AllFailNoActivePage ==
    [][\A t \in Tasks :
          (/\ pc[t] \in {"new_page", "pages"}
           /\ Browser(t).pages = <<>>
           /\ pc'[t] # pc[t])
          => (/\ pc'[t] = "idle"
              /\ ErrorKind(ret'.err) = "NoActivePage"
              /\ conns' = conns)]_vars

\* C8 (amended): executeScript, screenshot and getContent on a registered
\* session whose page set is empty issue no page operation and fail, with
\* NoActivePage or, when fetching the page set itself fails, with "Failed to
\* get pages"; navigate never fails with NoActivePage.
C8_NoActivePage ==
    [][/\ \A t \in Tasks :
             (pc[t] = "pages" /\ Browser(t).pages = <<>> /\ pc'[t] # pc[t])
             => (/\ pc'[t] = "idle"
                 /\ ret'.err \in {ErrNoPage, ErrPages}
                 /\ conns' = conns)
       /\ ret'.op = "navigate" => ErrorKind(ret'.err) # "NoActivePage"]_vars

\* C8 witness: a page command has failed with NoActivePage.
C8_Witness ==
    /\ ret.op \in {"executeScript", "screenshot", "getContent"}
    /\ ErrorKind(ret.err) = "NoActivePage"

\* C9: a close(id) does not wait for an in-flight command on the same id: it
\* is never kept from the lock by a task suspended in a browser operation on
\* that id.
C9_CloseDoesNotWait ==
    \A t \in Tasks, u \in Tasks :
        ~(/\ pc[t] = "lock"
          /\ call[t].op = "close"
          /\ lock = u
          /\ InFlight(u)
          /\ call[u].instance_id = call[t].instance_id)

\* C10: every id in the registry maps to a connection that is still open:
\* its Browser has not been dropped and its event pump is still running.
C10_RegisteredOpen ==
    \A id \in DOMAIN BROWSERS :
        /\ ~Dropped(conns[BROWSERS[id]])
        /\ conns[BROWSERS[id]].pump = "running"

\* C11: Closed is terminal: an id that a close has removed is never again a
\* key of the registry, whatever launches follow.
C11_ClosedTerminal ==
    \A id \in Ids : ClosedCount(id) > 0 => ~Registered(id)

\* C12: a launch returns successfully only from its registration step, with
\* {id, url = "about:blank", port = 9222}, and in the state it returns in the
\* returned id is a key of the registry mapped to the browser this very
\* launch established, which has not been dropped.
C12_LaunchReturnsRegistered ==
    [][/\ (ret'.op = "launch" /\ ret'.ok) =>
             \E t \in Tasks : pc[t] = "launch_lock" /\ pc'[t] = "idle"
       /\ \A t \in Tasks :
             (pc[t] = "launch_lock" /\ pc'[t] = "idle") =>
                LET b == local[t].browser
                    id == conns[b].id
                IN  /\ ret'.op = "launch"
                    /\ ret'.ok
                    /\ ret'.val = <<id, BlankPage, CdpPort>>
                    /\ id \in DOMAIN BROWSERS'
                    /\ BROWSERS'[id] = b
                    /\ conns'[b].owner = "registry"]_vars

\* C12 witness: a launch has just returned its instance, under an id that an
\* earlier launch had been given too.
C12_Witness ==
    /\ ret.op = "launch"
    /\ ret.ok
    /\ \E c \in Conns : conns[c].id = ret.val[1] /\ conns[c].owner = "insert"

\* C13: a command (navigate, executeScript, screenshot, getContent) whose id
\* is not a key of the registry when it looks it up returns in that very step
\* with NotFound (never NoActivePage, ConnectionError or IoError); it takes no
\* guard with it, issues no browser operation and writes no file.
C13_LookupMissFirst ==
    [][\A t \in Tasks :
          (/\ pc[t] = "lock"
           /\ call[t].op \in Commands
           /\ ~Registered(call[t].instance_id)
           /\ pc'[t] # pc[t])
          => (/\ pc'[t] = "idle"
              /\ ret'.op = call[t].op
              /\ ~ret'.ok
              /\ ret'.err = ErrNotFound
              /\ ErrorKind(ret'.err) = "NotFound"
              /\ lock' = lock
              /\ conns' = conns
              /\ BROWSERS' = BROWSERS
              /\ written' = NoneV)]_vars

\* C13 witness: a command has failed with NotFound on an id that was never
\* closed, while another session is registered (it has pages to operate on).
C13_Witness ==
    /\ ret.op \in Commands
    /\ ErrorKind(ret.err) = "NotFound"
    /\ ~ret.afterClose
    /\ DOMAIN BROWSERS # {}

\* C14: a launch that fails (the config does not build, or Browser::launch
\* fails) leaves no trace: the step it returns in changes neither the
\* registry nor the set of browsers and handler tasks and reads no clock, and
\* no step of the call before it had established a browser or an id.
C14_FailedLaunchNoTrace ==
    [][(ret'.op = "launch" /\ ~ret'.ok) =>
          /\ ret'.err \in {ErrBuild, ErrLaunch}
          /\ ret'.val = <<>>
          /\ BROWSERS' = BROWSERS
          /\ conns' = conns
          /\ clock' = clock
          /\ lock' = lock
          /\ \A t \in Tasks :
                (pc[t] = "browser_launch" /\ pc'[t] = "idle") =>
                   local[t].browser = NoConn]_vars

\* C14 witness: Browser::launch has failed while another session is
\* registered.
C14_Witness ==
    /\ ret.op = "launch"
    /\ ret.err = ErrLaunch
    /\ DOMAIN BROWSERS # {}

\* C15: launch applies each default independently: the window is the given
\* width or 1920 by the given height or 1080, whether no config is passed or
\* one that omits the field, and with no headless option the browser is
\* headed.
C15_IndependentDefaults ==
    launched.called =>
       LET config == launched.config
           given(field) == IsSome(config) /\ IsSome(Unwrap(config)[field])
           width == IF given("width")
                    THEN Unwrap(Unwrap(config).width) ELSE DefaultWidth
           height == IF given("height")
                     THEN Unwrap(Unwrap(config).height) ELSE DefaultHeight
       IN  /\ launched.browser_cfg.window = Some(<<width, height>>)
           /\ ~given("headless") => ~launched.browser_cfg.headless

\* C16: there is no error state: a command that got past the lookup and then
\* fails (NoActivePage, ConnectionError, IoError) neither removes nor
\* replaces the entry of its session: in the state it returns in the id is
\* still a key, mapped to the same browser, which has not been dropped, so a
\* later lookup of the id hits.
C16_NoErrorState ==
    [][\A t \in Tasks :
          (InFlight(t) /\ pc'[t] = "idle" /\ ~ret'.ok) =>
             LET id == call[t].instance_id
             IN  /\ ErrorKind(ret'.err) \in
                       {"NoActivePage", "ConnectionError", "IoError"}
                 /\ BROWSERS' = BROWSERS
                 /\ HashMapGet(BROWSERS', id) = Some(local[t].browser)
                 /\ conns' = conns
                 /\ ~Dropped(conns'[local[t].browser])]_vars

\* C16 witness: a screenshot has failed to write its file and its session is
\* still registered.
C16_Witness ==
    /\ ret.op = "screenshot"
    /\ ErrorKind(ret.err) = "IoError"
    /\ Registered(ret.instance_id)

\* C17: the registry holds at most one handle per session id: of the
\* browsers launched under one id at most one is owned by the registry, and
\* the registry-owned browsers are exactly the values of the map, each under
\* its own id.
C17_OneEntryPerId ==
    /\ \A c1, c2 \in Conns :
          (/\ conns[c1].owner = "registry"
           /\ conns[c2].owner = "registry"
           /\ conns[c1].id = conns[c2].id) => c1 = c2
    /\ \A c \in Conns :
          conns[c].owner = "registry" =>
             HashMapGet(BROWSERS, conns[c].id) = Some(c)
    /\ \A id \in DOMAIN BROWSERS :
          /\ BROWSERS[id] \in Conns
          /\ conns[BROWSERS[id]].id = id
          /\ conns[BROWSERS[id]].owner = "registry"

\* C17 witness: two launches were given the same id and the id is a key.
C17_Witness ==
    \E c1, c2 \in Issued :
        /\ c1 # c2
        /\ conns[c1].id = conns[c2].id
        /\ Registered(conns[c1].id)

\* the ports of start..end that can be bound
Bindable(start, end) == {p \in start..end : p \in free}
\* every item the iterator hands out until it ends
RECURSIVE Yields(_)
Yields(it) ==
    LET next == RangeNext(it)
    IN  IF IsSome(next.item) THEN <<Unwrap(next.item)>> \o Yields(next.it)
        ELSE <<>>

\* C18: find_available_port(start, end) returns an error when start = 0,
\* end = 0 or start > end; otherwise it returns the lowest port of start..end
\* that can be bound, and an error exactly when none can; its loop runs over
\* the ports start, .., end and then ends, also when end = 65535.
C18_FindAvailablePort ==
    found.fn = "find_available_port" =>
       IF start_port = 0 \/ end_port = 0 \/ start_port > end_port
       THEN ~found.ok
       ELSE /\ ~found.ok <=> Bindable(start_port, end_port) = {}
            /\ found.ok =>
                  /\ Len(found.val) = 1
                  /\ found.val[1] \in Bindable(start_port, end_port)
                  /\ \A q \in Bindable(start_port, end_port) : found.val[1] <= q
            /\ Yields(RangeInclusive(start_port, end_port)) =
                  [i \in 1..(end_port - start_port + 1) |-> start_port + i - 1]

\* C18 witness: a scan of a range that ends at 65535 has run through all of
\* it and found no port to bind.
C18_Witness ==
    /\ found.fn = "find_available_port"
    /\ 0 < start_port
    /\ start_port < end_port
    /\ end_port = MaxPort
    /\ found.err = ErrNoPortFound(start_port, end_port)

\* C19: find_available_ports(start, end, count) on a valid range returns the
\* empty list when count = 0, and otherwise either an error or the count
\* lowest ports of start..end that can be bound, in increasing order; it
\* returns an error when count exceeds the number of ports of the range or
\* fewer than count ports can be bound (and then only).
C19_FindAvailablePorts ==
    (/\ found.fn = "find_available_ports"
     /\ 0 < start_port
     /\ start_port <= end_port) =>
       LET bindable == Bindable(start_port, end_port)
           ports == found.val
       IN  /\ count = 0 => found.ok /\ ports = <<>>
           /\ found.ok =>
                 /\ Len(ports) = count
                 /\ \A i \in 1..Len(ports) : ports[i] \in bindable
                 /\ \A i, j \in 1..Len(ports) : i < j => ports[i] < ports[j]
                 /\ \A q \in bindable :
                       (\A i \in 1..Len(ports) : ports[i] # q) =>
                          \A i \in 1..Len(ports) : ports[i] < q
           /\ ~found.ok <=>
                 \/ count > end_port - start_port + 1
                 \/ Cardinality(bindable) < count

\* C19 witness: two ports were asked for and found, past a port of the range
\* that could not be bound.
C19_Witness ==
    /\ found.fn = "find_available_ports"
    /\ found.ok
    /\ count = 2
    /\ \E p \in start_port..end_port : p \notin free /\ p < found.val[2]

\* C20: explicit close is the only removal: every step in which an id stops
\* being a key of the registry is the step in which a close of that same id
\* returns true; no command, launch, pump termination or clock reading
\* removes an entry.
C20_CloseOnlyRemoval ==
    [][\A id \in DOMAIN BROWSERS :
          id \notin DOMAIN BROWSERS' =>
             /\ ret'.op = "close"
             /\ ret'.ok
             /\ ret'.instance_id = id
             /\ \E t \in Tasks :
                   /\ pc[t] = "lock"
                   /\ call[t].op = "close"
                   /\ call[t].instance_id = id
                   /\ pc'[t] = "idle"]_vars

\* C20 witness: a close has removed a session whose pump had already stopped
\* on an error, while the registry still holds another session.
C20_Witness ==
    /\ ret.op = "close"
    /\ ret.ok
    /\ \E c \in Conns :
          /\ conns[c].id = ret.instance_id
          /\ conns[c].owner = "close"
          /\ conns[c].pump = "errored"
    /\ DOMAIN BROWSERS # {}

\* C21: no use after teardown: a browser that has been dropped (its Arc
\* released by close, or replaced by a launch) is neither a value of the
\* registry nor the browser of a command in flight; no task performs a
\* browser operation on a dropped browser.
C21_NoUseAfterTeardown ==
    /\ \A t \in Tasks : InFlight(t) => ~Dropped(Browser(t))
    /\ \A c \in Conns :
          Dropped(conns[c]) =>
             /\ \A id \in DOMAIN BROWSERS : BROWSERS[id] # c
             /\ \A t \in Tasks :
                   (InFlight(t) \/ pc[t] = "launch_lock") =>
                      local[t].browser # c

\* C21 witness: a close is waiting for the lock while a command is in flight
\* on the session it is to remove.
C21_Witness ==
    \E t, u \in Tasks :
        /\ InFlight(t)
        /\ pc[u] = "lock"
        /\ call[u].op = "close"
        /\ call[u].instance_id = call[t].instance_id

\* C22: navigate has no rollback: a navigate whose page creation succeeds
\* adds exactly one page to its session, and the navigation step that
\* follows removes none whether it succeeds or fails; no step other than a
\* successful close of the session removes a page, so the page count of a
\* session that stays registered never decreases.
C22_NoRollback ==
    [][/\ \A t \in Tasks :
             (pc[t] = "new_page" /\ pc'[t] = "goto") =>
                /\ Len(Browser(t)'.pages) = Len(Browser(t).pages) + 1
                /\ SubSeq(Browser(t)'.pages, 1, Len(Browser(t).pages)) =
                      Browser(t).pages
       /\ \A t \in Tasks :
             (pc[t] = "goto" /\ pc'[t] = "idle") =>
                conns'[local[t].browser].pages = Browser(t).pages
       /\ \A c \in Conns :
             Len(conns'[c].pages) < Len(conns[c].pages) =>
                /\ ret'.op = "close"
                /\ ret'.ok
                /\ ret'.instance_id = conns[c].id
       /\ \A id \in DOMAIN BROWSERS \cap DOMAIN BROWSERS' :
             Len(conns'[BROWSERS'[id]].pages) >= Len(conns[BROWSERS[id]].pages)]_vars

\* C23 (as claimed): executeScript, screenshot and getContent act on the
\* oldest live page of the session (index 0 in the order the pages were
\* opened) and on no other; so a getContent that follows a navigate on a
\* session that had a page returns that first page's markup, not the markup
\* of the page the navigate opened.
C23_PageZero ==
    /\ \A t \in Tasks :
          pc[t] = "page_op" => local[t].page = Some(Browser(t).pages[1])
    /\ (ret.op = "getContent" /\ ret.ok) =>
          ret.val = <<Markup(conns[BROWSERS[ret.instance_id]].pages[1])>>

\* C23 (amended): executeScript, screenshot and getContent act on exactly one
\* page, the first of the Vec that pages() returned to the call, which is a
\* live page of the session; getContent returns the markup of one live page
\* of the session; pages keep their identity while others are opened.
C23_FirstOfFetched ==
    /\ \A t \in Tasks :
          pc[t] = "page_op" =>
             \E i \in 1..Len(Browser(t).pages) :
                local[t].page = Some(Browser(t).pages[i])
    /\ (ret.op = "getContent" /\ ret.ok) =>
          LET pages == conns[BROWSERS[ret.instance_id]].pages
          IN  \E i \in 1..Len(pages) : ret.val = <<Markup(pages[i])>>
    /\ \A c \in Conns :
          \A i \in 1..Len(conns[c].pages) : conns[c].pages[i].pid = i

\* C23 witness: on a session of two pages getContent has returned the markup
\* of the page opened last.
C23_Witness ==
    /\ ret.op = "getContent"
    /\ ret.ok
    /\ Registered(ret.instance_id)
    /\ LET pages == conns[BROWSERS[ret.instance_id]].pages
       IN  Len(pages) = 2 /\ ret.val = <<Markup(pages[2])>>

\* C25: executeScript never reports a serialization failure: a result value
\* that does not serialize is returned as the text "{}" with success, and
\* the call fails only with NotFound (lookup miss), "Failed to get pages",
\* NoActivePage (empty page set) or "Failed to execute JS".
C25_SerializationSwallowed ==
    /\ \A script \in Scripts : ToJson(FALSE, script) = <<"{}">>
    /\ ret.op = "executeScript" =>
          IF ret.ok
          THEN ret.val \in {<<<<"{}">>>>} \cup
                           {<<<<"json", script>>>> : script \in Scripts}
          ELSE ret.err \in {ErrNotFound, ErrPages, ErrNoPage, ErrEval}

\* C25 witness: an executeScript has returned "{}" with success.
C25_Witness ==
    /\ ret.op = "executeScript"
    /\ ret.ok
    /\ ret.val = <<<<"{}">>>>

\* C26: frame of the registry: no step of navigate, executeScript, screenshot
\* or getContent changes the map, whether the command succeeds or fails; a
\* successful close(id) removes the key id and leaves every other entry and
\* its browser as they were; a successful launch changes the entry under the
\* id it returns and no other.
C26_RegistryFrame ==
    [][/\ \A t \in Tasks :
             (call[t].op \in Commands /\ pc'[t] # pc[t]) => BROWSERS' = BROWSERS
       /\ (ret'.op \in Commands) => BROWSERS' = BROWSERS
       /\ (ret'.op = "close" /\ ret'.ok) =>
             /\ DOMAIN BROWSERS' = DOMAIN BROWSERS \ {ret'.instance_id}
             /\ \A k \in DOMAIN BROWSERS' :
                   /\ BROWSERS'[k] = BROWSERS[k]
                   /\ conns'[BROWSERS'[k]] = conns[BROWSERS[k]]
       /\ (ret'.op = "launch" /\ ret'.ok) =>
             /\ DOMAIN BROWSERS' = DOMAIN BROWSERS \cup {ret'.val[1]}
             /\ \A k \in DOMAIN BROWSERS \ {ret'.val[1]} :
                   /\ BROWSERS'[k] = BROWSERS[k]
                   /\ conns'[BROWSERS'[k]] = conns[BROWSERS[k]]]_vars

\* C26 witness: a close has returned true and left another session
\* registered, with a page open.
C26_Witness ==
    /\ ret.op = "close"
    /\ ret.ok
    /\ \E k \in DOMAIN BROWSERS :
          k # ret.instance_id /\ conns[BROWSERS[k]].pages # <<>>

\* C24: implicit pump termination: once the Browser of a connection has been
\* dropped (close removed its entry, or an insert replaced it; the registry
\* held its only Arc) its handler task eventually terminates; and a handler
\* task that has stopped, at the first errored event or at the end of the
\* stream, is never started again.
C24_PumpTerminates ==
    /\ \A c \in 1..MaxConns :
          (c \in Conns /\ Dropped(conns[c]))
             ~> (c \in Conns /\ conns[c].pump # "running")
    /\ [][\A c \in Conns :
             conns[c].pump # "running" => conns'[c].pump = conns[c].pump]_vars

\* C24 witness: the handler task of a closed session has ended while the
\* handler task of a registered session has stopped on an error.
C24_Witness ==
    /\ \E c \in Conns : conns[c].owner = "close" /\ conns[c].pump = "ended"
    /\ \E c \in Conns : conns[c].owner = "registry" /\ conns[c].pump = "errored"

\* C27: the lock is released on every exit path: it is only ever held by a
\* task that is inside a browser operation, never by one that has returned;
\* and, every browser operation returning in the end, every launch, command
\* and close that waits for the lock gets it and returns.
C27_LockReleased ==
    /\ [](\A t \in Tasks : lock = t => InFlight(t))
    /\ [](lock = NoTask \/ lock \in Tasks)
    /\ \A t \in Tasks : (pc[t] \in {"lock", "launch_lock"}) ~> (pc[t] = "idle")

\* C27 witness: a screenshot has failed to write its file and returned while
\* the other caller was waiting for the lock, which is free again.
C27_Witness ==
    /\ ret.op = "screenshot"
    /\ ret.err = ErrWrite
    /\ lock = NoTask
    /\ \E t \in Tasks : pc[t] \in {"lock", "launch_lock"}

====
